---- MODULE Spec2Model ----
(***************************************************************************)
(* Offline-first synchronisation engine of the CRM application:            *)
(*   IndexedDBService (src/src/services/indexeddb.ts)   Local Store + queue *)
(*   SyncService      (src/unnamed/part_007, l. 441-778) the reconciler     *)
(*   useOfflineFirst  (src/src/hooks/useOfflineFirst.ts) collection facade  *)
(*   CommunicationForm (src/src/components/communications/...) log writer   *)
(*   communication timeline (src/unnamed/part_000)       log delete         *)
(*   DemoDataService  (src/unnamed/part_008)             sample data        *)
(*                                                                         *)
(* The application is single-threaded and cooperative: code runs from one  *)
(* await to the next without interruption.  Every action below is one such *)
(* run: it begins when an awaited storage request or remote call returns   *)
(* (the request takes effect at that moment) and ends at the next await.   *)
(*                                                                         *)
(* Storage requests that may be rejected: getPendingSyncItems and           *)
(* clearCompletedSyncItems of startSync (FetchFail, PurgeFail) and          *)
(* addToSyncQueue of the facade (EnqueueFail).  Every other storage request *)
(* is taken to succeed.                                                     *)
(***************************************************************************)
EXTENDS Integers, Sequences, FiniteSets, TLC

\* ---------------------------------------------------------------- bounds
MaxRecords == 1     \* records ever inserted into the object stores
MaxQ       == 3     \* sync-queue entries ever appended
MaxSrv     == 2     \* ids the remote API ever hands out
MaxPasses  == 2     \* startSync invocations that can be suspended at once
MaxFails   == 3     \* remote calls that fail in a run
MaxBacklog == 6     \* entries of a backlog that spans two batches

\* ------------------------------------------------------ program constants
maxRetries == 3
batchSize  == 5

Tables == {"leads", "communicationLogs"}
Vals   == {1}        \* the field values a caller passes to create
NoId   == 0         \* serverId undefined
NoVal  == 0         \* field undefined

Min(a, b) == IF a < b THEN a ELSE b

\* ------------------------------------------------------------- state
VARIABLES
  online,          \* navigator.onLine
  syncInProgress,  \* SyncService.syncInProgress
  store,           \* object stores: store[t] maps localId -> record
  nextLocalId,     \* key generator of each object store
  queue,           \* object store 'syncQueue': id -> SyncQueueItem
  nextQid,         \* key generator of 'syncQueue'
  remote,          \* records held by the remote API: serverId -> data
  nextSrv,         \* next id the remote API hands out
  passes,          \* suspended startSync invocations
  facade,          \* the facade call in progress
  calls,           \* history: each entry ever queued, and its remote calls that returned
  retryTimeout,    \* SyncService.retryTimeout: "null", "armed", or "fired" (stale handle)
  lastSyncTime,    \* localStorage 'lastSyncTime': 0 when never set
  onlineStatusCallback, \* SyncService.onlineStatusCallback: the listener held, or "none"
  listeners,       \* history: the listeners that have called setStatusCallback
  missed,          \* history: the listeners a status notification did not reach
  hasInitialized   \* DemoDataService.hasInitialized

vars == <<online, syncInProgress, store, nextLocalId, queue, nextQid,
          remote, nextSrv, passes, facade, calls, retryTimeout, lastSyncTime,
          onlineStatusCallback, listeners, missed, hasInitialized>>

PassIds == 1..MaxPasses

\* A record of a synced collection.
Rec(sid, name, note) == [serverId |-> sid, name |-> name, note |-> note]

\* { ...a, ...b } for a partial b (a field of b that is NoVal is absent in b)
Overlay(a, b) ==
  [serverId |-> a.serverId,
   name     |-> IF b.name = NoVal THEN a.name ELSE b.name,
   note     |-> IF b.note = NoVal THEN a.note ELSE b.note]

\* function f without key k
Remove(f, k) == [x \in DOMAIN f \ {k} |-> f[x]]
\* function f with f[k] = v (IDBObjectStore.put)
Put(f, k, v) == [x \in DOMAIN f \cup {k} |-> IF x = k THEN v ELSE f[x]]

IdleTask == [pc |-> "wait", cur |-> <<>>, sid |-> NoId, ld |-> <<>>, err |-> "none"]
IdlePass == [pc |-> "idle", items |-> <<>>, lo |-> 1, tasks |-> <<>>]
IdleFacade == [pc |-> "idle", op |-> "none", table |-> "leads", localId |-> 0,
               old |-> <<>>, rec |-> <<>>, entry |-> <<>>, qid |-> 0,
               trigger |-> FALSE]
NoCalls == [tableName |-> "none", operation |-> "none", localId |-> 0,
            ok |-> 0, failed |-> 0]

Init ==
  /\ online \in BOOLEAN
  /\ syncInProgress = FALSE
  /\ store = [t \in Tables |-> <<>>]
  /\ nextLocalId = [t \in Tables |-> 1]
  /\ queue = <<>>
  /\ nextQid = 1
  /\ remote = <<>>
  /\ nextSrv = 1
  /\ passes = [p \in PassIds |-> IdlePass]
  /\ facade = IdleFacade
  /\ calls = [q \in 1..MaxQ |-> NoCalls]
  /\ retryTimeout = "null"
  /\ lastSyncTime = 0
  /\ onlineStatusCallback = "none"
  /\ listeners = {}
  /\ missed = {}
  /\ hasInitialized = FALSE

\* ------------------------------------------------- IndexedDBService
RECURSIVE SortedSeq(_)
\* the elements of a finite set of numbers in ascending order
SortedSeq(S) ==
  IF S = {} THEN <<>>
  ELSE LET m == CHOOSE x \in S : \A y \in S : x <= y
       IN <<m>> \o SortedSeq(S \ {m})

\* index.getAll('pending'): the entries of that status, by ascending id
getPendingSyncItems ==
  LET ids == {q \in DOMAIN queue : queue[q].status = "pending"}
      ord == SortedSeq(ids)
  IN [i \in 1..Len(ord) |-> queue[ord[i]]]

\* the queue after the put of updateSyncQueueItem: { ...item, ...updates }
updateSyncQueueItem(item, status, retryCount, error, sid) ==
  Put(queue, item.id,
      [item EXCEPT !.status = status, !.retryCount = retryCount,
                   !.error = error, !.serverId = sid])

\* a purge that deletes the failed entries too
clearSettledSyncItems ==
  [q \in {x \in DOMAIN queue : queue[x].status \notin {"completed", "failed"}}
     |-> queue[q]]

\* the queue after the cursor over status 'completed' has deleted its entries
clearCompletedSyncItems ==
  [q \in {x \in DOMAIN queue : queue[x].status # "completed"} |-> queue[q]]

\* the entry addToSyncQueue stores for a request made by a facade
addToSyncQueue(id, tableName, operation, localId, data, sid) ==
  [id |-> id, tableName |-> tableName, operation |-> operation,
   localId |-> localId, data |-> data, serverId |-> sid,
   retryCount |-> 0, status |-> "pending", error |-> "none"]

\* ------------------------------------------------------ SyncService
IdleSlots == {p \in PassIds : passes[p].pc = "idle"}
Running   == {p \in PassIds : passes[p].pc # "idle"}

\* the components that register a status listener: the hook useOfflineFirst
\* and the SyncStatusIndicator of the layout
Listeners == {"hook", "indicator"}

\* setStatusCallback(callback) called by listener l
setStatusCallback(l) ==
  /\ l \notin listeners
  /\ onlineStatusCallback' = l
  /\ listeners' = listeners \cup {l}
  /\ UNCHANGED <<online, syncInProgress, store, nextLocalId, queue, nextQid,
                 remote, nextSrv, passes, facade, calls, retryTimeout,
                 lastSyncTime, missed, hasInitialized>>

\* notifyStatusChange: the status goes to the callback held, if any
notifyStatusChange == missed' = missed \cup (listeners \ {onlineStatusCallback})

\* startSync up to its first await; onl is navigator.onLine at the call
startSync(onl) ==
  IF syncInProgress \/ ~onl
  THEN UNCHANGED <<syncInProgress, passes, missed>>
  ELSE /\ IdleSlots # {}
       /\ notifyStatusChange
       /\ syncInProgress' = TRUE
       /\ LET p == CHOOSE x \in IdleSlots : \A y \in IdleSlots : x <= y
          IN passes' = [passes EXCEPT ![p] = [IdlePass EXCEPT !.pc = "fetch"]]

\* window 'online' event; the notifyStatusChange after startSync reaches the
\* callback that the one inside startSync reaches
handleOnline ==
  /\ ~online
  /\ online' = TRUE
  /\ startSync(TRUE)
  /\ UNCHANGED <<store, nextLocalId, queue, nextQid, remote, nextSrv, facade, calls,
                 retryTimeout, lastSyncTime,
                 onlineStatusCallback, listeners, hasInitialized>>

\* handleOffline without its clearTimeout
handleOfflineKeepsTimer ==
  /\ online
  /\ online' = FALSE
  /\ syncInProgress' = FALSE
  /\ notifyStatusChange
  /\ UNCHANGED <<store, nextLocalId, queue, nextQid, remote, nextSrv, passes,
                 facade, calls, retryTimeout, lastSyncTime,
                 onlineStatusCallback, listeners, hasInitialized>>

\* window 'offline' event
handleOffline ==
  /\ online
  /\ online' = FALSE
  /\ syncInProgress' = FALSE
  /\ retryTimeout' = "null"
  /\ notifyStatusChange
  /\ UNCHANGED <<store, nextLocalId, queue, nextQid, remote, nextSrv, passes,
                 facade, calls, lastSyncTime,
                 onlineStatusCallback, listeners, hasInitialized>>

\* manual trigger; throws when offline
forcSync ==
  /\ online
  /\ ~syncInProgress
  /\ startSync(online)
  /\ UNCHANGED <<online, store, nextLocalId, queue, nextQid, remote, nextSrv,
                 facade, calls,
                 retryTimeout, lastSyncTime,
                 onlineStatusCallback, listeners, hasInitialized>>

\* syncItem up to its first await: the get of updateSyncQueueItem is issued
StartTask == [IdleTask EXCEPT !.pc = "markGet"]

BatchHi(pr) == Min(pr.lo + batchSize - 1, Len(pr.items))

\* the for loop of startSync enters the batch that begins at lo
StartBatch(pr, lo) ==
  LET hi == Min(lo + batchSize - 1, Len(pr.items))
  IN [pr EXCEPT !.pc = "batch", !.lo = lo,
                !.tasks = [k \in 1..Len(pr.items) |->
                             IF k \in lo..hi THEN StartTask ELSE pr.tasks[k]]]

\* Promise.all of the current batch: resolved once every syncItem returned
Advance(pr) ==
  IF \A k \in pr.lo..BatchHi(pr) : pr.tasks[k].pc = "settled"
  THEN IF BatchHi(pr) < Len(pr.items)
       THEN StartBatch(pr, BatchHi(pr) + 1)
       ELSE [pr EXCEPT !.pc = "purge"]
  ELSE pr

\* getPendingSyncItems returns to startSync
Fetch(p) ==
  /\ passes[p].pc = "fetch"
  /\ LET items == getPendingSyncItems
         pr == [passes[p] EXCEPT !.items = items,
                                 !.tasks = [k \in 1..Len(items) |-> IdleTask]]
     IN passes' = [passes EXCEPT ![p] =
                     IF Len(items) = 0 THEN [pr EXCEPT !.pc = "purge"]
                     ELSE StartBatch(pr, 1)]
  /\ UNCHANGED <<online, syncInProgress, store, nextLocalId, queue, nextQid,
                 remote, nextSrv, facade, calls,
                 retryTimeout, lastSyncTime,
                 onlineStatusCallback, listeners, missed, hasInitialized>>

\* the switch of syncItem / syncLead after the entry was marked syncing:
\* what the task waits for next
Dispatch(item) ==
  IF item.tableName = "communicationLogs" THEN "doneGet"
  ELSE IF item.operation = "CREATE" THEN "remote"
  ELSE IF item.serverId = NoId THEN "failGet"
  ELSE "remote"

Dispatched(t, item) ==
  LET nx == Dispatch(item)
  IN [t EXCEPT !.pc = nx, !.cur = <<>>,
               !.sid = NoId,
               !.err = IF nx = "failGet" THEN "serverIdRequired" ELSE "none"]

ActiveTask(p, k) ==
  /\ passes[p].pc = "batch"
  /\ k \in passes[p].lo..BatchHi(passes[p])

\* updateSyncQueueItem(id, {status:'syncing'}): its get returns
MarkGet(p, k) ==
  /\ ActiveTask(p, k)
  /\ passes[p].tasks[k].pc = "markGet"
  /\ LET item == passes[p].items[k]
         t == passes[p].tasks[k]
     IN IF item.id \in DOMAIN queue
        THEN passes' = [passes EXCEPT ![p].tasks[k] =
                          [t EXCEPT !.pc = "markPut", !.cur = <<queue[item.id]>>]]
        ELSE passes' = [passes EXCEPT ![p].tasks[k] = Dispatched(t, item)]
  /\ UNCHANGED <<online, syncInProgress, store, nextLocalId, queue, nextQid,
                 remote, nextSrv, facade, calls,
                 retryTimeout, lastSyncTime,
                 onlineStatusCallback, listeners, missed, hasInitialized>>

\* ... its put returns; syncItem goes on to the remote operation
MarkPut(p, k) ==
  /\ ActiveTask(p, k)
  /\ passes[p].tasks[k].pc = "markPut"
  /\ LET item == passes[p].items[k]
         t == passes[p].tasks[k]
         cur == t.cur[1]
     IN /\ queue' = updateSyncQueueItem(cur, "syncing", cur.retryCount,
                                        cur.error, cur.serverId)
        /\ passes' = [passes EXCEPT ![p].tasks[k] = Dispatched(t, item)]
  /\ UNCHANGED <<online, syncInProgress, store, nextLocalId, nextQid,
                 remote, nextSrv, facade, calls,
                 retryTimeout, lastSyncTime,
                 onlineStatusCallback, listeners, missed, hasInitialized>>

RECURSIVE SumFailed(_)
SumFailed(n) == IF n = 0 THEN 0 ELSE calls[n].failed + SumFailed(n - 1)

\* what the remote API keeps of a payload
RemoteData(d) == [name |-> d.name, note |-> d.note]

\* apiService.createLead / updateLead / deleteLead resolves
RemoteOk(p, k) ==
  /\ ActiveTask(p, k)
  /\ passes[p].tasks[k].pc = "remote"
  /\ LET item == passes[p].items[k]
         t == passes[p].tasks[k]
     IN /\ CASE item.operation = "CREATE" ->
                 /\ nextSrv <= MaxSrv
                 /\ remote' = Put(remote, nextSrv, RemoteData(item.data))
                 /\ nextSrv' = nextSrv + 1
                 /\ passes' = [passes EXCEPT ![p].tasks[k] =
                                 [t EXCEPT !.pc = "wbGet", !.sid = nextSrv]]
             [] item.operation = "UPDATE" ->
                 /\ item.serverId \in DOMAIN remote
                 /\ remote' = Put(remote, item.serverId, RemoteData(item.data))
                 /\ nextSrv' = nextSrv
                 /\ passes' = [passes EXCEPT ![p].tasks[k] =
                                 [t EXCEPT !.pc = "doneGet", !.sid = item.serverId]]
             [] item.operation = "DELETE" ->
                 /\ item.serverId \in DOMAIN remote
                 /\ remote' = Remove(remote, item.serverId)
                 /\ nextSrv' = nextSrv
                 /\ passes' = [passes EXCEPT ![p].tasks[k] =
                                 [t EXCEPT !.pc = "doneGet", !.sid = item.serverId]]
        /\ calls' = [calls EXCEPT ![item.id].ok = @ + 1]
  /\ UNCHANGED <<online, syncInProgress, store, nextLocalId, queue, nextQid, facade,
                 retryTimeout, lastSyncTime,
                 onlineStatusCallback, listeners, missed, hasInitialized>>

\* a rejected remote call that makes startSync give up its pass
RemoteFailAborts(p, k) ==
  /\ ActiveTask(p, k)
  /\ passes[p].tasks[k].pc = "remote"
  /\ SumFailed(Len(calls)) < MaxFails
  /\ LET item == passes[p].items[k]
         t == passes[p].tasks[k]
     IN /\ passes' = [passes EXCEPT ![p].pc = "purge",
                                    ![p].tasks[k] = [t EXCEPT !.err = "remote"]]
        /\ calls' = [calls EXCEPT ![item.id].failed = @ + 1]
  /\ UNCHANGED <<online, syncInProgress, store, nextLocalId, queue, nextQid,
                 remote, nextSrv, facade, retryTimeout, lastSyncTime,
                 onlineStatusCallback, listeners, missed, hasInitialized>>

\* the remote call rejects (network error, timeout, 4xx/5xx): catch of syncItem
RemoteFail(p, k) ==
  /\ ActiveTask(p, k)
  /\ passes[p].tasks[k].pc = "remote"
  /\ SumFailed(Len(calls)) < MaxFails
  /\ LET item == passes[p].items[k]
         t == passes[p].tasks[k]
     IN /\ passes' = [passes EXCEPT ![p].tasks[k] =
                        [t EXCEPT !.pc = "failGet", !.err = "remote"]]
        /\ calls' = [calls EXCEPT ![item.id].failed = @ + 1]
  /\ UNCHANGED <<online, syncInProgress, store, nextLocalId, queue, nextQid,
                 remote, nextSrv, facade,
                 retryTimeout, lastSyncTime,
                 onlineStatusCallback, listeners, missed, hasInitialized>>

\* the entry leaves syncItem; startSync resumes when its whole batch has
Settle(p, k) ==
  LET pr == [passes[p] EXCEPT !.tasks[k] =
               [IdleTask EXCEPT !.pc = "settled", !.err = passes[p].tasks[k].err]]
  IN [passes EXCEPT ![p] = Advance(pr)]

\* indexedDBService.get(item.tableName, item.localId) returns
WbGet(p, k) ==
  /\ ActiveTask(p, k)
  /\ passes[p].tasks[k].pc = "wbGet"
  /\ LET item == passes[p].items[k]
         t == passes[p].tasks[k]
     IN passes' = [passes EXCEPT ![p].tasks[k] =
                     IF item.localId \in DOMAIN store[item.tableName]
                     THEN [t EXCEPT !.pc = "wbPut",
                                    !.ld = <<store[item.tableName][item.localId]>>]
                     ELSE [t EXCEPT !.pc = "doneGet"]]
  /\ UNCHANGED <<online, syncInProgress, store, nextLocalId, queue, nextQid,
                 remote, nextSrv, facade, calls,
                 retryTimeout, lastSyncTime,
                 onlineStatusCallback, listeners, missed, hasInitialized>>

\* indexedDBService.update(item.tableName, { ...localData, serverId }) returns
WbPut(p, k) ==
  /\ ActiveTask(p, k)
  /\ passes[p].tasks[k].pc = "wbPut"
  /\ LET item == passes[p].items[k]
         t == passes[p].tasks[k]
     IN /\ store' = [store EXCEPT ![item.tableName] =
                       Put(@, item.localId, [t.ld[1] EXCEPT !.serverId = t.sid])]
        /\ passes' = [passes EXCEPT ![p].tasks[k] =
                        [t EXCEPT !.pc = "doneGet", !.ld = <<>>]]
  /\ UNCHANGED <<online, syncInProgress, nextLocalId, queue, nextQid,
                 remote, nextSrv, facade, calls,
                 retryTimeout, lastSyncTime,
                 onlineStatusCallback, listeners, missed, hasInitialized>>

\* updateSyncQueueItem(id, {status:'completed', serverId}): its get returns
DoneGet(p, k) ==
  /\ ActiveTask(p, k)
  /\ passes[p].tasks[k].pc = "doneGet"
  /\ LET item == passes[p].items[k]
         t == passes[p].tasks[k]
     IN passes' = IF item.id \in DOMAIN queue
                  THEN [passes EXCEPT ![p].tasks[k] =
                          [t EXCEPT !.pc = "donePut", !.cur = <<queue[item.id]>>]]
                  ELSE Settle(p, k)
  /\ UNCHANGED <<online, syncInProgress, store, nextLocalId, queue, nextQid,
                 remote, nextSrv, facade, calls,
                 retryTimeout, lastSyncTime,
                 onlineStatusCallback, listeners, missed, hasInitialized>>

\* ... its put returns: syncItem is over
DonePut(p, k) ==
  /\ ActiveTask(p, k)
  /\ passes[p].tasks[k].pc = "donePut"
  /\ LET t == passes[p].tasks[k]
         cur == t.cur[1]
     IN queue' = updateSyncQueueItem(cur, "completed", cur.retryCount,
                                     cur.error, t.sid)
  /\ passes' = Settle(p, k)
  /\ UNCHANGED <<online, syncInProgress, store, nextLocalId, nextQid,
                 remote, nextSrv, facade, calls,
                 retryTimeout, lastSyncTime,
                 onlineStatusCallback, listeners, missed, hasInitialized>>

\* catch of syncItem: the get of its updateSyncQueueItem returns
FailGet(p, k) ==
  /\ ActiveTask(p, k)
  /\ passes[p].tasks[k].pc = "failGet"
  /\ LET item == passes[p].items[k]
         t == passes[p].tasks[k]
     IN passes' = IF item.id \in DOMAIN queue
                  THEN [passes EXCEPT ![p].tasks[k] =
                          [t EXCEPT !.pc = "failPut", !.cur = <<queue[item.id]>>]]
                  ELSE Settle(p, k)
  /\ UNCHANGED <<online, syncInProgress, store, nextLocalId, queue, nextQid,
                 remote, nextSrv, facade, calls,
                 retryTimeout, lastSyncTime,
                 onlineStatusCallback, listeners, missed, hasInitialized>>

\* a catch that counts the failure and leaves the status of the entry as read
syncItemCatchKeepsStatus(item, cur, err) ==
  LET newRetryCount == item.retryCount + 1
  IN IF newRetryCount < maxRetries
     THEN updateSyncQueueItem(cur, cur.status, newRetryCount, err, cur.serverId)
     ELSE updateSyncQueueItem(cur, "failed", cur.retryCount, err, cur.serverId)

\* the entry the catch of syncItem writes for a failure of message err
syncItemCatch(item, cur, err) ==
  LET newRetryCount == item.retryCount + 1
  IN IF newRetryCount < maxRetries
     THEN updateSyncQueueItem(cur, "pending", newRetryCount, err, cur.serverId)
     ELSE updateSyncQueueItem(cur, "failed", cur.retryCount, err, cur.serverId)

\* ... its put returns: syncItem is over
FailPut(p, k) ==
  /\ ActiveTask(p, k)
  /\ passes[p].tasks[k].pc = "failPut"
  /\ LET item == passes[p].items[k]
         t == passes[p].tasks[k]
     IN queue' = syncItemCatch(item, t.cur[1], t.err)
  /\ passes' = Settle(p, k)
  /\ UNCHANGED <<online, syncInProgress, store, nextLocalId, nextQid,
                 remote, nextSrv, facade, calls,
                 retryTimeout, lastSyncTime,
                 onlineStatusCallback, listeners, missed, hasInitialized>>

\* Date.now() at a moment later than the stamp t: a value different from t
Now(t) == IF t = 1 THEN 2 ELSE 1

\* an end of startSync that leaves the flag as it is
PurgeKeepsFlag(p) ==
  /\ passes[p].pc = "purge"
  /\ queue' = clearCompletedSyncItems
  /\ lastSyncTime' = Now(lastSyncTime)
  /\ passes' = [passes EXCEPT ![p] = IdlePass]
  /\ notifyStatusChange
  /\ UNCHANGED <<online, syncInProgress, store, nextLocalId, nextQid, remote,
                 nextSrv, facade, calls, retryTimeout,
                 onlineStatusCallback, listeners, hasInitialized>>

\* clearCompletedSyncItems returns; startSync runs to its end (finally)
Purge(p) ==
  /\ passes[p].pc = "purge"
  /\ queue' = clearCompletedSyncItems
  /\ syncInProgress' = FALSE
  /\ lastSyncTime' = Now(lastSyncTime)
  /\ passes' = [passes EXCEPT ![p] = IdlePass]
  /\ notifyStatusChange
  /\ UNCHANGED <<online, store, nextLocalId, nextQid, remote, nextSrv,
                 facade, calls, retryTimeout,
                 onlineStatusCallback, listeners, hasInitialized>>

\* scheduleRetry: a timer still pending is cleared and a new one is armed
scheduleRetry == retryTimeout' = "armed"

\* getPendingSyncItems rejects (storage failure): catch and finally of startSync
FetchFail(p) ==
  /\ passes[p].pc = "fetch"
  /\ scheduleRetry
  /\ syncInProgress' = FALSE
  /\ passes' = [passes EXCEPT ![p] = IdlePass]
  /\ notifyStatusChange
  /\ UNCHANGED <<online, store, nextLocalId, queue, nextQid, remote, nextSrv,
                 facade, calls, lastSyncTime,
                 onlineStatusCallback, listeners, hasInitialized>>

\* clearCompletedSyncItems rejects (its transaction aborts): catch and finally
PurgeFail(p) ==
  /\ passes[p].pc = "purge"
  /\ scheduleRetry
  /\ syncInProgress' = FALSE
  /\ passes' = [passes EXCEPT ![p] = IdlePass]
  /\ notifyStatusChange
  /\ UNCHANGED <<online, store, nextLocalId, queue, nextQid, remote, nextSrv,
                 facade, calls, lastSyncTime,
                 onlineStatusCallback, listeners, hasInitialized>>

\* the callback of the retry timer runs, retryDelay after scheduleRetry; the
\* handle stays in retryTimeout
RetryFire ==
  /\ retryTimeout = "armed"
  /\ retryTimeout' = "fired"
  /\ IF online THEN startSync(online)
     ELSE UNCHANGED <<syncInProgress, passes, missed>>
  /\ UNCHANGED <<online, store, nextLocalId, queue, nextQid, remote, nextSrv,
                 facade, calls, lastSyncTime,
                 onlineStatusCallback, listeners, hasInitialized>>

\* ------------------------------------- useOfflineFirst / CommunicationForm
\* the partial records a caller may pass to update
Partials == {[name |-> 2, note |-> NoVal], [name |-> NoVal, note |-> 1]}

RECURSIVE SumOver(_, _)
\* the sum of f over the finite set S
SumOver(f, S) ==
  IF S = {} THEN 0
  ELSE LET x == CHOOSE y \in S : TRUE IN f[x] + SumOver(f, S \ {x})

Inserted == SumOver(nextLocalId, Tables) - Cardinality(Tables)

\* create(data) of useOfflineFirst, and the "Create new" branch of
\* CommunicationForm (table communicationLogs, which triggers no sync),
\* up to the return of indexedDBService.add
create(t, v) ==
  /\ facade.pc = "idle"
  /\ Inserted < MaxRecords
  /\ nextQid <= MaxQ
  /\ LET localId == nextLocalId[t]
         localData == Rec(NoId, v, NoVal)
     IN /\ store' = [store EXCEPT ![t] = Put(@, localId, localData)]
        /\ nextLocalId' = [nextLocalId EXCEPT ![t] = localId + 1]
        /\ facade' = [pc |-> "enq", op |-> "create", table |-> t,
                      localId |-> localId, old |-> <<>>, rec |-> <<localData>>,
                      entry |-> <<[operation |-> "CREATE", data |-> localData,
                                   serverId |-> NoId]>>,
                      qid |-> 0,
                      trigger |-> (t # "communicationLogs")]
  /\ UNCHANGED <<online, syncInProgress, queue, nextQid, remote, nextSrv,
                 passes, calls,
                 retryTimeout, lastSyncTime,
                 onlineStatusCallback, listeners, missed, hasInitialized>>

\* an update that queues the caller's partial data in place of the merged record
updateQueuesPartial(k, d) ==
  /\ facade.pc = "idle"
  /\ nextQid <= MaxQ
  /\ k \in DOMAIN store["leads"]
  /\ LET existingItem == store["leads"][k]
     IN facade' = [pc |-> "updPut", op |-> "update", table |-> "leads",
                   localId |-> k, old |-> <<existingItem>>,
                   rec |-> <<Overlay(existingItem, d)>>,
                   entry |-> <<[operation |-> "UPDATE",
                                data |-> Rec(NoId, d.name, d.note),
                                serverId |-> existingItem.serverId]>>,
                   qid |-> 0,
                   trigger |-> TRUE]
  /\ UNCHANGED <<online, syncInProgress, store, nextLocalId, queue, nextQid,
                 remote, nextSrv, passes, calls,
                 retryTimeout, lastSyncTime,
                 onlineStatusCallback, listeners, missed, hasInitialized>>

\* update(localId, data) up to the return of indexedDBService.get
update(k, d) ==
  /\ facade.pc = "idle"
  /\ nextQid <= MaxQ
  /\ k \in DOMAIN store["leads"]
  /\ LET existingItem == store["leads"][k]
     IN facade' = [pc |-> "updPut", op |-> "update", table |-> "leads",
                   localId |-> k, old |-> <<existingItem>>,
                   rec |-> <<Overlay(existingItem, d)>>,
                   entry |-> <<[operation |-> "UPDATE",
                                data |-> Overlay(existingItem, d),
                                serverId |-> existingItem.serverId]>>,
                   qid |-> 0,
                   trigger |-> TRUE]
  /\ UNCHANGED <<online, syncInProgress, store, nextLocalId, queue, nextQid,
                 remote, nextSrv, passes, calls,
                 retryTimeout, lastSyncTime,
                 onlineStatusCallback, listeners, missed, hasInitialized>>

\* an update that does not write the record
UpdatePutSkipsStore ==
  /\ facade.pc = "updPut"
  /\ facade' = [facade EXCEPT !.pc = "enq"]
  /\ UNCHANGED <<online, syncInProgress, store, nextLocalId, queue, nextQid,
                 remote, nextSrv, passes, calls, retryTimeout, lastSyncTime,
                 onlineStatusCallback, listeners, missed, hasInitialized>>

\* indexedDBService.update(tableName, updatedData) returns
UpdatePut ==
  /\ facade.pc = "updPut"
  /\ store' = [store EXCEPT ![facade.table] = Put(@, facade.localId, facade.rec[1])]
  /\ facade' = [facade EXCEPT !.pc = "enq"]
  /\ UNCHANGED <<online, syncInProgress, nextLocalId, queue, nextQid, remote,
                 nextSrv, passes, calls,
                 retryTimeout, lastSyncTime,
                 onlineStatusCallback, listeners, missed, hasInitialized>>

\* deleteItem(localId) up to the return of indexedDBService.get
deleteItem(k) ==
  /\ facade.pc = "idle"
  /\ k \in DOMAIN store["leads"]
  /\ LET existingItem == store["leads"][k]
     IN /\ existingItem.serverId # NoId => nextQid <= MaxQ
        /\ facade' = [pc |-> "delDel", op |-> "delete", table |-> "leads",
                      localId |-> k, old |-> <<existingItem>>, rec |-> <<>>,
                      entry |-> IF existingItem.serverId # NoId
                                THEN <<[operation |-> "DELETE",
                                        data |-> Rec(NoId, NoVal, NoVal),
                                        serverId |-> existingItem.serverId]>>
                                ELSE <<>>,
                      qid |-> 0,
                      trigger |-> (existingItem.serverId # NoId)]
  /\ UNCHANGED <<online, syncInProgress, store, nextLocalId, queue, nextQid,
                 remote, nextSrv, passes, calls,
                 retryTimeout, lastSyncTime,
                 onlineStatusCallback, listeners, missed, hasInitialized>>

\* indexedDBService.delete(tableName, localId) returns
DeleteDel ==
  /\ facade.pc = "delDel"
  /\ store' = [store EXCEPT ![facade.table] = Remove(@, facade.localId)]
  /\ facade' = [facade EXCEPT !.pc = IF facade.entry # <<>> THEN "enq" ELSE "fin"]
  /\ UNCHANGED <<online, syncInProgress, nextLocalId, queue, nextQid, remote,
                 nextSrv, passes, calls,
                 retryTimeout, lastSyncTime,
                 onlineStatusCallback, listeners, missed, hasInitialized>>

\* an append that reuses the pending entry of the same record and operation
EnqueueMerges ==
  /\ facade.pc = "enq"
  /\ LET e == facade.entry[1]
         same == {q \in DOMAIN queue :
                    /\ queue[q].tableName = facade.table
                    /\ queue[q].localId = facade.localId
                    /\ queue[q].operation = e.operation
                    /\ queue[q].status = "pending"}
         id == IF same = {} THEN nextQid ELSE CHOOSE q \in same : TRUE
     IN /\ queue' = Put(queue, id,
                        addToSyncQueue(id, facade.table, e.operation,
                                       facade.localId, e.data, e.serverId))
        /\ nextQid' = nextQid + 1
        /\ calls' = [calls EXCEPT ![nextQid] =
                       [NoCalls EXCEPT !.tableName = facade.table,
                                       !.operation = e.operation,
                                       !.localId = facade.localId]]
        /\ facade' = IF facade.table = "communicationLogs" THEN IdleFacade
                     ELSE [facade EXCEPT !.pc = "fin", !.entry = <<>>, !.qid = id]
  /\ UNCHANGED <<online, syncInProgress, store, nextLocalId, remote, nextSrv,
                 passes,
                 retryTimeout, lastSyncTime,
                 onlineStatusCallback, listeners, missed, hasInitialized>>

\* a delete that rejects when the key is absent
deleteMissingRejects(t, k) ==
  [ok |-> k \in DOMAIN store[t], store |-> [store EXCEPT ![t] = Remove(@, k)]]

\* IndexedDBService.delete(tableName, key): the request of store.delete(key)
\* succeeds whether or not the key is present; the object stores afterwards
delete(t, k) ==
  [ok |-> TRUE, store |-> [store EXCEPT ![t] = Remove(@, k)]]

\* handleDelete(communication) of the communication timeline, up to the
\* return of indexedDBService.delete; the communication comes from the list
\* on screen, whose record may be gone from the Local Store already (old
\* keeps the record that was in the store, if any); the catch shows an error
handleDelete(k) ==
  /\ facade.pc = "idle"
  /\ k \in 1..(nextLocalId["communicationLogs"] - 1)
  /\ LET t == "communicationLogs"
         r == delete(t, k)
         sid == IF k \in DOMAIN store[t] THEN store[t][k].serverId ELSE NoId
     IN /\ sid # NoId => nextQid <= MaxQ
        /\ store' = r.store
        /\ facade' =
             IF ~r.ok THEN [IdleFacade EXCEPT !.op = "error"]
             ELSE [pc |-> IF sid # NoId THEN "enq" ELSE "fin", op |-> "delete",
                   table |-> t, localId |-> k,
                   old |-> IF k \in DOMAIN store[t] THEN <<store[t][k]>> ELSE <<>>,
                   rec |-> <<>>,
                   entry |-> IF sid # NoId
                             THEN <<[operation |-> "DELETE",
                                     data |-> Rec(NoId, NoVal, NoVal),
                                     serverId |-> sid]>>
                             ELSE <<>>,
                   qid |-> 0, trigger |-> FALSE]
  /\ UNCHANGED <<online, syncInProgress, nextLocalId, queue, nextQid, remote,
                 nextSrv, passes, calls, retryTimeout, lastSyncTime,
                 onlineStatusCallback, listeners, missed, hasInitialized>>

\* createDemoData: the sample records are added to their object stores with
\* indexedDBService.add (one lead and one communication log stand for them)
createDemoData ==
  /\ store' = [t \in Tables |-> Put(store[t], nextLocalId[t], Rec(NoId, 1, NoVal))]
  /\ nextLocalId' = [t \in Tables |-> nextLocalId[t] + 1]

\* DemoDataService.initializeDemoData, called by the hook when it mounts:
\* sample data is created once per page load, when the tables are empty
initializeDemoData ==
  /\ ~hasInitialized
  /\ facade.pc = "idle"
  /\ hasInitialized' = TRUE
  /\ IF store["leads"] = <<>> THEN createDemoData
     ELSE UNCHANGED <<store, nextLocalId>>
  /\ UNCHANGED <<online, syncInProgress, queue, nextQid, remote, nextSrv,
                 passes, facade, calls, retryTimeout, lastSyncTime,
                 onlineStatusCallback, listeners, missed>>

\* indexedDBService.addToSyncQueue(...) returns to the facade
Enqueue ==
  /\ facade.pc = "enq"
  /\ LET e == facade.entry[1]
     IN queue' = Put(queue, nextQid,
                     addToSyncQueue(nextQid, facade.table, e.operation,
                                    facade.localId, e.data, e.serverId))
  /\ nextQid' = nextQid + 1
  /\ calls' = [calls EXCEPT ![nextQid] =
                 [NoCalls EXCEPT !.tableName = facade.table,
                                 !.operation = facade.entry[1].operation,
                                 !.localId = facade.localId]]
  /\ facade' = IF facade.table = "communicationLogs" THEN IdleFacade
               ELSE [facade EXCEPT !.pc = "fin", !.entry = <<>>, !.qid = nextQid]
  /\ UNCHANGED <<online, syncInProgress, store, nextLocalId, remote, nextSrv,
                 passes,
                 retryTimeout, lastSyncTime,
                 onlineStatusCallback, listeners, missed, hasInitialized>>

\* indexedDBService.addToSyncQueue(...) rejects (storage failure): the catch
\* of the facade operation reports the error
EnqueueFail ==
  /\ facade.pc = "enq"
  /\ facade' = IdleFacade
  /\ UNCHANGED <<online, syncInProgress, store, nextLocalId, queue, nextQid,
                 remote, nextSrv, passes, calls, retryTimeout, lastSyncTime,
                 onlineStatusCallback, listeners, missed, hasInitialized>>

\* loadData returns; the facade triggers syncService.startSync() when online
Finish ==
  /\ facade.pc = "fin"
  /\ facade' = IdleFacade
  /\ IF facade.trigger THEN startSync(online)
     ELSE UNCHANGED <<syncInProgress, passes, missed>>
  /\ UNCHANGED <<online, store, nextLocalId, queue, nextQid, remote, nextSrv, calls,
                 retryTimeout, lastSyncTime,
                 onlineStatusCallback, listeners, hasInitialized>>

\* ------------------------------------------------------ specification
\* the steps of the reconciler between two awaits
Reconcile ==
  \E p \in PassIds :
    \/ Fetch(p)
    \/ Purge(p)
    \/ \E k \in 1..Len(passes[p].items) :
         \/ MarkGet(p, k)
         \/ MarkPut(p, k)
         \/ RemoteOk(p, k)
         \/ WbGet(p, k)
         \/ WbPut(p, k)
         \/ DoneGet(p, k)
         \/ DonePut(p, k)
         \/ FailGet(p, k)
         \/ FailPut(p, k)

RemoteFails ==
  \E p \in PassIds : \E k \in 1..Len(passes[p].items) : RemoteFail(p, k)

Creates == \E t \in Tables, v \in Vals : create(t, v)

Writes ==
  \/ \E k \in 1..MaxRecords, d \in Partials : update(k, d)
  \/ UpdatePut
  \/ \E k \in 1..MaxRecords : deleteItem(k)
  \/ DeleteDel

Registers == \E l \in Listeners : setStatusCallback(l)

HandleDeletes == \E k \in 1..MaxRecords : handleDelete(k)

\* every interleaving of the program with its environment
Next ==
  \/ handleOnline
  \/ handleOffline
  \/ forcSync
  \/ RetryFire
  \/ Reconcile
  \/ RemoteFails
  \/ (\E p \in PassIds : FetchFail(p) \/ PurgeFail(p))
  \/ Creates
  \/ Writes
  \/ Enqueue
  \/ EnqueueFail
  \/ Finish
  \/ Registers
  \/ HandleDeletes
  \/ initializeDemoData

Spec == Init /\ [][Next]_vars

\* The device is online throughout and nothing but the facade starts a drain
\* pass: the user creates, edits and deletes at any time, and remote calls
\* succeed or fail.
InitOnline == Init /\ online = TRUE

NextOnline ==
  \/ Reconcile
  \/ RemoteFails
  \/ Creates
  \/ Writes
  \/ Enqueue
  \/ Finish

SpecOnline == InitOnline /\ [][NextOnline]_vars

\* Connectivity changes only between drain passes; the user creates, edits
\* and deletes at any time.
handleOfflineIdle == Running = {} /\ handleOffline

NextCalm ==
  \/ handleOnline
  \/ handleOfflineIdle
  \/ forcSync
  \/ Reconcile
  \/ RemoteFails
  \/ Creates
  \/ Writes
  \/ Enqueue
  \/ Finish

SpecCalm == Init /\ [][NextCalm]_vars

\* Connectivity changes at any time, also in the middle of a drain pass; the
\* user only creates records.
NextFlap ==
  \/ handleOnline
  \/ handleOffline
  \/ forcSync
  \/ Reconcile
  \/ RemoteFails
  \/ Creates
  \/ Enqueue
  \/ Finish

SpecFlap == Init /\ [][NextFlap]_vars

\* The device starts offline; the user works while it is offline; it then
\* goes online and stays online, and the remote API accepts every call.
InitOffline == Init /\ online = FALSE

OfflineCreates  == ~online /\ Creates
OfflineWrites   == ~online /\ Writes
OfflineEnqueue  == ~online /\ Enqueue
OfflineFinish   == ~online /\ Finish
handleOnlineIdle == facade.pc = "idle" /\ handleOnline

NextOffline ==
  \/ OfflineCreates
  \/ OfflineWrites
  \/ OfflineEnqueue
  \/ OfflineFinish
  \/ handleOnlineIdle
  \/ forcSync
  \/ Reconcile

SpecOffline == InitOffline /\ [][NextOffline]_vars

\* Storage requests of startSync may fail and arm the retry timer;
\* connectivity changes at any time; the user only creates records.
StorageFails == \E p \in PassIds : FetchFail(p) \/ PurgeFail(p)

NextRetry ==
  \/ handleOnline
  \/ handleOffline
  \/ forcSync
  \/ RetryFire
  \/ StorageFails
  \/ Reconcile
  \/ RemoteFails
  \/ Creates
  \/ Enqueue
  \/ Finish

SpecRetry == Init /\ [][NextRetry]_vars

\* The queue is empty: every drain pass fetches, purges and ends, unless one
\* of its two storage requests fails; connectivity changes at any time.
Drain == \E p \in PassIds : Fetch(p) \/ Purge(p)

NextTimer ==
  \/ handleOnline
  \/ handleOffline
  \/ forcSync
  \/ RetryFire
  \/ StorageFails
  \/ Drain

SpecTimer == Init /\ [][NextTimer]_vars

\* The state after n records were created while the device was offline,
\* record q in collection tbl[q]: the queue holds their n pending CREATE
\* entries.
Backlog(n, tbl) ==
  /\ online = FALSE
  /\ syncInProgress = FALSE
  /\ store = [t \in Tables |->
               [k \in {q \in 1..n : tbl[q] = t} |-> Rec(NoId, 1, NoVal)]]
  /\ nextLocalId = [t \in Tables |-> n + 1]
  /\ queue = [q \in 1..n |->
               addToSyncQueue(q, tbl[q], "CREATE", q, Rec(NoId, 1, NoVal), NoId)]
  /\ nextQid = n + 1
  /\ remote = <<>>
  /\ nextSrv = 1
  /\ passes = [p \in PassIds |-> IdlePass]
  /\ facade = IdleFacade
  /\ calls = [q \in 1..n |->
               [NoCalls EXCEPT !.tableName = tbl[q], !.operation = "CREATE",
                               !.localId = q]]
  /\ retryTimeout = "null"
  /\ lastSyncTime = 0
  /\ onlineStatusCallback = "none"
  /\ listeners = {}
  /\ missed = {}
  /\ hasInitialized = FALSE

\* The queue is empty and stays empty; the hook and the status indicator
\* register their listeners at any time, connectivity changes at any time and
\* every drain pass fetches, purges and ends.
NextListeners ==
  \/ Registers
  \/ handleOnline
  \/ handleOffline
  \/ forcSync
  \/ Drain

SpecListeners == Init /\ [][NextListeners]_vars

\* A backlog of MaxQ leads.  The device then goes on and off line at any
\* time and the remote API is slow: no remote call returns.
InitBacklog == Backlog(MaxQ, [q \in 1..MaxQ |-> "leads"])

\* the reconciler up to the dispatch of the remote calls
CallOut ==
  \E p \in PassIds :
    \/ Fetch(p)
    \/ \E k \in 1..Len(passes[p].items) : MarkGet(p, k) \/ MarkPut(p, k)

NextBacklog ==
  \/ handleOnline
  \/ handleOffline
  \/ CallOut

SpecBacklog == InitBacklog /\ [][NextBacklog]_vars

\* A backlog of more than one batch: communication logs fill the first
\* batch but for its last place, the entries from there on are leads.  The
\* device goes online; connectivity changes only between drain passes; remote
\* calls succeed or fail.
InitBatches ==
  Backlog(MaxBacklog, [q \in 1..MaxBacklog |->
                         IF q < batchSize THEN "communicationLogs" ELSE "leads"])

NextBatches ==
  \/ handleOnline
  \/ handleOfflineIdle
  \/ forcSync
  \/ Reconcile
  \/ RemoteFails

SpecBatches == InitBatches /\ [][NextBatches]_vars

\* the steps of drain pass p between two awaits
ReconcileOf(p) ==
  \/ Fetch(p)
  \/ Purge(p)
  \/ \E k \in 1..Len(passes[p].items) :
       \/ MarkGet(p, k)
       \/ MarkPut(p, k)
       \/ RemoteOk(p, k)
       \/ WbGet(p, k)
       \/ WbPut(p, k)
       \/ DoneGet(p, k)
       \/ DonePut(p, k)
       \/ FailGet(p, k)
       \/ FailPut(p, k)

\* The same, where every storage request and every remote call of a drain
\* pass returns: a step of a pass that stays possible is taken.
LiveBatches == SpecBatches /\ \A p \in PassIds : WF_vars(ReconcileOf(p))

\* The device is offline throughout and no drain pass runs.  The Local Store
\* is empty, or holds one lead that was synchronised earlier (it has a
\* serverId and its queue entry was purged); the user creates, edits and
\* deletes, and the append to the queue may fail.
InitSynced ==
  /\ online = FALSE
  /\ syncInProgress = FALSE
  /\ store = [t \in Tables |->
               IF t = "leads" THEN [k \in {1} |-> Rec(1, 1, NoVal)] ELSE <<>>]
  /\ nextLocalId = [t \in Tables |-> IF t = "leads" THEN 2 ELSE 1]
  /\ queue = <<>>
  /\ nextQid = 2
  /\ remote = [k \in {1} |-> RemoteData(Rec(1, 1, NoVal))]
  /\ nextSrv = 2
  /\ passes = [p \in PassIds |-> IdlePass]
  /\ facade = IdleFacade
  /\ calls = [q \in 1..MaxQ |->
               IF q = 1 THEN [tableName |-> "leads", operation |-> "CREATE",
                              localId |-> 1, ok |-> 1, failed |-> 0]
               ELSE NoCalls]
  /\ retryTimeout = "null"
  /\ lastSyncTime = 1
  /\ onlineStatusCallback = "none"
  /\ listeners = {}
  /\ missed = {}
  /\ hasInitialized = FALSE

InitFacade == InitOffline \/ InitSynced

NextFacade ==
  \/ Creates
  \/ Writes
  \/ Enqueue
  \/ EnqueueFail
  \/ Finish

SpecFacade == InitFacade /\ [][NextFacade]_vars

\* The device is offline and no drain pass runs; the user creates, edits and
\* deletes leads and communication logs, and deletes communication logs from
\* the timeline, where a log may be listed after it was deleted; the append
\* to the queue may fail.
NextTimeline ==
  \/ Creates
  \/ Writes
  \/ Enqueue
  \/ EnqueueFail
  \/ Finish
  \/ HandleDeletes

SpecTimeline == InitFacade /\ [][NextTimeline]_vars

\* A first start: the hook mounts and creates the sample data; the user then
\* edits and deletes; connectivity changes between drain passes.
DemoWrites  == hasInitialized /\ Writes
DemoEnqueue == hasInitialized /\ Enqueue
DemoFinish  == hasInitialized /\ Finish

NextDemo ==
  \/ initializeDemoData
  \/ DemoWrites
  \/ DemoEnqueue
  \/ DemoFinish
  \/ handleOnline
  \/ handleOfflineIdle
  \/ forcSync
  \/ Reconcile

SpecDemo == Init /\ [][NextDemo]_vars

\* ------------------------------------------------------------ claims
\* the suspended syncItem calls, as <<pass, index>>
Tasks == UNION {{<<p, k>> : k \in 1..Len(passes[p].items)} :
                  p \in {x \in PassIds : passes[x].pc = "batch"}}
ItemOf(pk) == passes[pk[1]].items[pk[2]]
TaskOf(pk) == passes[pk[1]].tasks[pk[2]]
\* the remote calls for entry q that are in flight
InFlight(q) == {pk \in Tasks : ItemOf(pk).id = q /\ TaskOf(pk).pc = "remote"}
\* the remote calls ever dispatched for entry q
Attempts(q) == calls[q].ok + calls[q].failed + Cardinality(InFlight(q))
\* entries q and r were queued for the same record
SameRecord(a, b) == a.tableName = b.tableName /\ a.localId = b.localId

\* C1: at every moment at most one drain pass (body of startSync) is
\* executing, whatever the interleaving of connectivity events and triggers.
C1_SinglePass == Cardinality(Running) <= 1

\* C2: of two entries of one record, the remote call of the later-enqueued
\* one is dispatched only after the remote call of the earlier one has
\* completed: the two calls are never in flight together.
C2_PerKeyOrder ==
  \A a, b \in Tasks :
    (SameRecord(ItemOf(a), ItemOf(b)) /\ ItemOf(a).id < ItemOf(b).id
       /\ TaskOf(b).pc = "remote")
    => TaskOf(a).pc # "remote"

\* C3: with a remote that accepts every call, an UPDATE entry that was queued
\* without serverId for a record created offline is sent with the serverId
\* found on the Local Store record: once the CREATE has been reconciled and
\* the record holds its serverId, the UPDATE entry has no error, no retry
\* and not the status failed.
C3_UpdateResolvesServerId ==
  \A q \in DOMAIN queue :
    (/\ queue[q].operation = "UPDATE" /\ queue[q].serverId = NoId
     /\ queue[q].localId \in DOMAIN store[queue[q].tableName]
     /\ store[queue[q].tableName][queue[q].localId].serverId # NoId)
    => /\ queue[q].error = "none"
       /\ queue[q].retryCount = 0
       /\ queue[q].status # "failed"

\* C4: in every synced collection, once the drain pass triggered by going
\* online has completed, each record created offline has a serverId and its
\* CREATE entry is no longer pending.
C4_CreatedOfflineGetsServerId ==
  (online /\ Running = {})
  => \A t \in Tables : \A k \in DOMAIN store[t] :
       /\ store[t][k].serverId # NoId
       /\ ~\E q \in DOMAIN queue :
             /\ queue[q].tableName = t /\ queue[q].localId = k
             /\ queue[q].operation = "CREATE" /\ queue[q].status = "pending"

\* C5: for a record created and deleted before the device ever went online,
\* no remote create and no remote delete call is ever made.
C5_NoCallForSupersededCreate ==
  \A q \in 1..(nextQid - 1) :
    calls[q].localId \notin DOMAIN store[calls[q].tableName]
    => Attempts(q) = 0

\* C6: whenever neither a drain pass nor a facade call is in progress, a
\* Local Store record has a serverId exactly when a remote create for it has
\* succeeded (no remote delete is made for a record still in the store).
CreatedRemotely(t, k) ==
  \E q \in 1..(nextQid - 1) :
    /\ calls[q].tableName = t /\ calls[q].localId = k
    /\ calls[q].operation = "CREATE" /\ calls[q].ok > 0

C6_ServerIdIffCreated ==
  (Running = {} /\ facade.pc = "idle")
  => \A t \in Tables : \A k \in DOMAIN store[t] :
       (store[t][k].serverId # NoId) <=> CreatedRemotely(t, k)

\* C7: an entry whose remote call fails on every attempt is attempted at most
\* maxRetries times, is failed only after maxRetries failed attempts, and
\* between attempts is pending with retryCount equal to its failed attempts.
C7_ExactlyMaxRetries ==
  \A q \in 1..(nextQid - 1) :
    calls[q].ok = 0
    => /\ Attempts(q) <= maxRetries
       /\ (q \in DOMAIN queue /\ queue[q].status = "failed")
            => calls[q].failed = maxRetries
       /\ (q \in DOMAIN queue /\ queue[q].status = "pending")
            => /\ queue[q].retryCount = calls[q].failed
               /\ queue[q].retryCount > 0 => queue[q].error = "remote"

\* C8: an entry that has status failed stays in the queue with status failed.
C8_FailedIsTerminal ==
  [][\A q \in DOMAIN queue :
       queue[q].status = "failed"
       => (q \in DOMAIN queue' /\ queue'[q].status = "failed")]_vars

\* C9: the retryCount of an entry changes only in the step that records the
\* failure of a remote call for that entry.
C9_RetryCountOnlyOnRemoteFailure ==
  [][\A q \in DOMAIN queue \cap DOMAIN queue' :
       queue'[q].retryCount # queue[q].retryCount
       => \E pk \in Tasks :
            /\ ItemOf(pk).id = q
            /\ TaskOf(pk).pc = "failPut"
            /\ TaskOf(pk).err = "remote"]_vars

\* C10: an UPDATE or DELETE entry without serverId whose record has no
\* serverId either and whose CREATE is not pending (here: it has failed for
\* good) is marked failed by the step that records its processing error.
Unresolvable(item) ==
  /\ item.operation \in {"UPDATE", "DELETE"}
  /\ item.serverId = NoId
  /\ item.localId \in DOMAIN store[item.tableName]
  /\ store[item.tableName][item.localId].serverId = NoId
  /\ \E q \in DOMAIN queue :
       /\ SameRecord(queue[q], item)
       /\ queue[q].operation = "CREATE" /\ queue[q].status = "failed"

C10_UnresolvableFailsAtOnce ==
  [][\A pk \in Tasks :
       (TaskOf(pk).pc = "failPut" /\ Unresolvable(ItemOf(pk))
          /\ queue'[ItemOf(pk).id] # queue[ItemOf(pk).id])
       => queue'[ItemOf(pk).id].status = "failed"]_vars

\* some remote call of pass p has failed
SawRemoteFailure(p) ==
  \E k \in 1..Len(passes[p].items) : passes[p].tasks[k].err = "remote"

\* pass p ends in this step
Ends(p) == passes[p].pc # "idle" /\ passes'[p].pc = "idle"

\* C11: when a drain pass ends in which the remote call of some entry has
\* failed, the retry timer is armed.
C11_RetryArmedAfterFailure ==
  [][\A p \in PassIds :
       (Ends(p) /\ SawRemoteFailure(p)) => retryTimeout' = "armed"]_vars

\* C12 as stated: while the device is offline no retry timer is armed.
C12_NoTimerWhileOffline == ~online => retryTimeout # "armed"

\* C12: the offline transition leaves no retry timer armed, and a retry timer
\* that fires while the device is offline starts no drain pass (also a timer
\* armed, after the offline event, by a pass that failed).
C12_OfflineClearsTimer ==
  [][/\ (online /\ ~online') => retryTimeout' = "null"
     /\ (retryTimeout = "armed" /\ retryTimeout' = "fired" /\ ~online)
          => (passes' = passes /\ syncInProgress' = syncInProgress)]_vars

\* a retry timer armed after the offline event has fired while offline
C12_Witness == ~online /\ retryTimeout = "fired"

\* a step in which startSync is called
CallsStartSync ==
  \/ handleOnline
  \/ forcSync
  \/ (facade.trigger /\ online /\ Finish)
  \/ (online /\ RetryFire)

\* C13: a call of startSync while a drain pass is executing (or while the
\* device is offline) starts no pass and leaves the flag syncInProgress, the
\* queue, the Local Store, the remote and lastSyncTime unchanged.
C13_StartSyncNoOp ==
  [][(CallsStartSync /\ (Running # {} \/ ~online'))
       => /\ passes' = passes
          /\ syncInProgress' = syncInProgress
          /\ queue' = queue /\ store' = store
          /\ remote' = remote /\ calls' = calls
          /\ lastSyncTime' = lastSyncTime]_vars

\* C14: syncInProgress (isSyncing of getSyncStatus) is true exactly in the
\* states in which a drain pass is executing.
C14_IsSyncingAccurate == syncInProgress <=> (Running # {})

\* the remote calls of the reconciler that are in flight
RemoteInFlight == {pk \in Tasks : TaskOf(pk).pc = "remote"}

\* C15: at most batchSize remote calls of the reconciler are in flight, and
\* within a pass no entry beyond the current batch has been dispatched.
C15_BoundedInFlight ==
  /\ Cardinality(RemoteInFlight) <= batchSize
  /\ \A pk \in Tasks :
       pk[2] > BatchHi(passes[pk[1]]) => TaskOf(pk).pc = "wait"

\* C16: a drain pass in which a remote call failed still ends by the purge,
\* after every entry of its snapshot, in the same and in later batches, has
\* been through syncItem; the purge leaves no completed entry and stamps
\* lastSyncTime.
C16_FailureDoesNotAbort ==
  [][\A p \in PassIds :
       (Ends(p) /\ SawRemoteFailure(p))
       => /\ passes[p].pc = "purge"
          /\ \A k \in 1..Len(passes[p].items) :
               passes[p].tasks[k].pc = "settled"
          /\ \A q \in DOMAIN queue' : queue'[q].status # "completed"
          /\ lastSyncTime' # lastSyncTime]_vars

\* a pass of two batches is about to purge after a remote call of its first
\* batch has failed
C16_Witness ==
  \E p \in PassIds :
    /\ passes[p].pc = "purge"
    /\ Len(passes[p].items) > batchSize
    /\ \E k \in 1..batchSize : passes[p].tasks[k].err = "remote"

\* C17: the purge that completes a drain pass leaves no completed entry in
\* the queue, removes no other entry and changes no other entry.
C17_PurgeOnlyCompleted ==
  [][\A p \in PassIds :
       (passes[p].pc = "purge" /\ Ends(p) /\ lastSyncTime' # lastSyncTime)
       => /\ \A q \in DOMAIN queue' : queue'[q].status # "completed"
          /\ DOMAIN queue' \subseteq DOMAIN queue
          /\ \A q \in DOMAIN queue :
               queue[q].status # "completed"
               => (q \in DOMAIN queue' /\ queue'[q] = queue[q])]_vars

\* a purge has removed the completed entries and has left a failed entry
C17_Witness ==
  /\ Running = {}
  /\ Cardinality(DOMAIN queue) < nextQid - 1
  /\ \E q \in DOMAIN queue : queue[q].status = "failed"

\* the facade operation in progress returns to its caller in this step
Returns == facade.pc # "idle" /\ facade'.pc = "idle"

\* the operation returns because its append to the queue has failed
AppendFailed == facade.pc = "enq" /\ Returns /\ nextQid' = nextQid

\* C18: when the queue append of a facade write fails after its record write
\* succeeded, the record write is undone: the record is as it was before the
\* call.
C18_WriteAndEnqueueAtomic ==
  [][AppendFailed
       => LET recs == store'[facade.table]
              k == facade.localId
          IN IF facade.op = "create" THEN k \notin DOMAIN recs
             ELSE k \in DOMAIN recs /\ recs[k] = facade.old[1]]_vars

\* the queue entry the returning operation has appended is pending and has
\* the operation op and the key of the operation's record
HasEntry(op) ==
  LET q == IF facade.pc = "enq" THEN nextQid ELSE facade.qid
  IN /\ q \in DOMAIN queue'
     /\ queue'[q].status = "pending"
     /\ queue'[q].operation = op
     /\ queue'[q].tableName = facade.table
     /\ queue'[q].localId = facade.localId

\* the Local Store reflects the returning operation
Reflected ==
  LET recs == store'[facade.table]
      k == facade.localId
  IN IF facade.op = "delete" THEN k \notin DOMAIN recs
     ELSE k \in DOMAIN recs /\ recs[k] = facade.rec[1]

C20_DeleteQueuedIffServerId ==
  [][/\ (facade.pc = "delDel" /\ facade'.pc # "delDel"
            /\ facade.localId \in DOMAIN store[facade.table])
          => ((store[facade.table][facade.localId].serverId # NoId)
                <=> facade.entry # <<>>)
     /\ \A pk \in Tasks :
          (TaskOf(pk).pc = "remote" /\ ItemOf(pk).operation = "DELETE")
          => ItemOf(pk).serverId # NoId]_vars

\* the append of a facade write to the queue succeeds in this step
Appends == facade.pc = "enq" /\ facade'.pc # "enq" /\ ~AppendFailed

\* C21: addToSyncQueue always appends: the queue gains exactly one entry,
\* pending with retryCount 0, under an id greater than every id assigned
\* before; every entry already queued is unchanged, also when an entry of the
\* same localId and operation is queued.
C21_AlwaysAppends ==
  [][Appends
       => \E id \in DOMAIN queue' \ DOMAIN queue :
            /\ DOMAIN queue' = DOMAIN queue \cup {id}
            /\ \A q \in DOMAIN queue : queue'[q] = queue[q]
            /\ queue'[id].id = id
            /\ queue'[id].status = "pending"
            /\ queue'[id].retryCount = 0
            /\ \A q \in 1..MaxQ : calls[q].operation # "none" => q < id]_vars

\* two updates of one record are queued as two pending UPDATE entries
C21_Witness ==
  \E q, r \in DOMAIN queue :
    /\ q < r
    /\ queue[q].operation = "UPDATE" /\ queue[q].status = "pending"
    /\ queue[r].operation = "UPDATE" /\ queue[r].status = "pending"
    /\ SameRecord(queue[q], queue[r])

\* C22: the facade update stores the record it read overlaid with the
\* caller's data, and appends an UPDATE entry whose payload is the record as
\* stored and whose serverId is the serverId of the record it read.
C22_UpdateStoresAndQueues ==
  [][/\ (facade.pc = "idle" /\ facade'.op = "update")
          => /\ facade'.localId \in DOMAIN store[facade'.table]
             /\ facade'.old[1] = store[facade'.table][facade'.localId]
             /\ \E d \in Partials :
                  LET o == facade'.old[1]
                      r == facade'.rec[1]
                  IN /\ r.serverId = o.serverId
                     /\ r.name = IF d.name # NoVal THEN d.name ELSE o.name
                     /\ r.note = IF d.note # NoVal THEN d.note ELSE o.note
     /\ (facade.pc = "updPut" /\ facade'.pc # "updPut")
          => store'[facade.table][facade.localId] = facade.rec[1]
     /\ (Appends /\ facade.op = "update")
          => \E id \in DOMAIN queue' \ DOMAIN queue :
               /\ queue'[id].operation = "UPDATE"
               /\ queue'[id].tableName = facade.table
               /\ queue'[id].localId = facade.localId
               /\ queue'[id].data = facade.rec[1]
               /\ queue'[id].serverId = facade.old[1].serverId]_vars

\* the update of a synchronised record is queued: the entry carries the
\* edited record as stored and the record's serverId
C22_Witness ==
  \E q \in DOMAIN queue :
    /\ queue[q].operation = "UPDATE"
    /\ queue[q].serverId # NoId
    /\ queue[q].data.name = 2
    /\ facade.pc = "fin" /\ facade.qid = q
    /\ store[queue[q].tableName][queue[q].localId] = queue[q].data

\* C23: every registered status listener receives every status-change
\* notification, whatever the number of listeners: registering a second
\* listener does not stop the notifications to the first.
C23_EveryListenerNotified == missed = {}

\* C24: IndexedDBService.delete of a key that is not in the store succeeds
\* without error and leaves the store unchanged, so deleting a record twice
\* has the effect of deleting it once.
C24_DeleteAbsentIsNoOp ==
  [][\A k \in 1..MaxRecords :
       (handleDelete(k) /\ k \notin DOMAIN store["communicationLogs"])
         => /\ store' = store
            /\ facade'.pc = "fin"
            /\ delete("communicationLogs", k).store = store]_vars

\* a communication log was deleted, and deleted again from the timeline: the
\* second delete has returned without error
C24_Witness ==
  /\ facade.pc = "fin" /\ facade.op = "delete"
  /\ facade.table = "communicationLogs"
  /\ nextLocalId["communicationLogs"] > facade.localId
  /\ facade.old = <<>>
  /\ store["communicationLogs"] = <<>>
  /\ \E q \in DOMAIN queue :
       /\ queue[q].tableName = "communicationLogs"
       /\ queue[q].operation = "CREATE"
       /\ queue[q].localId = facade.localId

\* C25: for every CREATE entry, at most one remote create call succeeds over
\* the entry's lifetime, across all passes and interleavings with
\* connectivity events: no duplicate remote record is created.
C25_AtMostOneCreate ==
  \A q \in 1..MaxQ :
    calls[q].operation = "CREATE" => calls[q].ok <= 1

\* C26: the write-back after a successful CREATE changes only the serverId
\* of the record: the values that a facade update stored between the
\* reconciler's read of the record and its write are still there afterwards.
C26_WriteBackKeepsUpdate ==
  [][\A pk \in Tasks :
       LET item == ItemOf(pk)
           recs == store[item.tableName]
       IN (/\ TaskOf(pk).pc = "wbPut"
           /\ passes'[pk[1]].tasks[pk[2]].pc # "wbPut"
           /\ item.localId \in DOMAIN recs)
          => /\ store'[item.tableName][item.localId].name = recs[item.localId].name
             /\ store'[item.tableName][item.localId].note = recs[item.localId].note]_vars

\* nothing is in progress and no timer is armed: the program takes no further
\* step until the user writes or forces a sync, or connectivity changes
Quiescent ==
  /\ Running = {}
  /\ facade.pc = "idle"
  /\ retryTimeout # "armed"

\* no drain pass has marked entry q syncing yet
NeverAttempted(q) ==
  /\ q \in DOMAIN queue
  /\ queue[q].status = "pending"
  /\ queue[q].retryCount = 0
  /\ calls[q].ok + calls[q].failed = 0

\* C27: every entry appended by a facade write while the device is online is
\* attempted by some drain pass if the device stays online and remote calls
\* return, without a further write, forced sync or connectivity event: when
\* the program comes to rest, no entry is left that no pass has attempted.
C27_AppendedOnlineIsAttempted ==
  (online /\ Quiescent)
  => \A q \in 1..MaxQ : calls[q].tableName = "leads" => ~NeverAttempted(q)

C30_UnsyncedRecordHasCreate ==
  \A t \in Tables : \A k \in DOMAIN store[t] :
    store[t][k].serverId = NoId
    => \E q \in DOMAIN queue :
         /\ queue[q].tableName = t
         /\ queue[q].localId = k
         /\ queue[q].operation = "CREATE"
         /\ queue[q].status \in {"pending", "syncing", "failed"}

====
